---- MODULE Spec2Model ----
(***************************************************************************)
(* Model of the SCD Type 2 reconciliation of src/src/bmw/data_processor.py *)
(* (merge_historical_data and its helpers).                                *)
(*                                                                         *)
(* A table (pandas DataFrame) is a sequence of rows; a row is a record.    *)
(* Dates are day numbers (scrape_date.date()); NoDate stands for None/NaT. *)
(* The one numeric tracked column carried by the rows is price; NoValue    *)
(* stands for a missing price (None/NaN).  The history returned by one     *)
(* merge is the history given to the next; runs of the same day and of     *)
(* the next day are both possible (the pipeline is scheduled twice a day). *)
(***************************************************************************)
EXTENDS Integers, Sequences, FiniteSets, TLC

\* ---------------------------------------------------------------- bounds
NumKeys == 2
MaxDay == 2
MaxRuns == 3
MaxPipelineRuns == 2
MaxFileRows == 2
MaxMainRuns == 2
NumProcs == 2
MaxInvocations == 3
MaxTicks == 2
MaxSyncCalls == 2

\* ------------------------------------------------------------- constants
NoDate == 0
NoValue == 0
\* float('nan') in a numeric column (a missing value read back from CSV)
NaN == -1
\* None and float('nan') in a text column
NoneText == "<None>"
NaNText == "<NaN>"

\* config.TRACKING_COLUMNS, the columns the model's rows can carry, in the
\* order of the list; a row is compared on those of them it carries
TRACKING_COLUMNS ==
    <<"car_id", "model_name", "price", "kilometers", "equipments">>
\* the columns of the numeric branch of compare_records (line 38)
NumericColumns == {"price", "kilometers"}
\* the columns whose values are Python strings, None or NaN
TextColumns == {"model_name"}

Keys == 1..NumKeys
Days == 1..MaxDay
Prices == {NoValue, 100, 120}
\* the keys whose price varies between snapshots; the others keep ListPrice
VaryingKeys == {1}
ListPrice == 100

VARIABLES
    cmp_old_record,   \* compare_records: the stored row
    cmp_new_record,   \* compare_records: the snapshot row
    cmp_tracking_cols,\* compare_records: the order of the tracked columns
    cmp_returned,     \* compare_records has returned
    cmp_changed,      \* the value compare_records returned
    trigger_utc,          \* the UTC time at which the timer fires
    utc_offset,           \* the offset of Brussels time from UTC, in hours
    timer_returned,       \* BmwScrapingFunction has returned
    current_hour,         \* BmwScrapingFunction: current_hour
    current_minute,       \* BmwScrapingFunction: current_minute
    pipeline_executed,    \* BmwScrapingFunction has called main()
    main_pc,              \* main(): the step it is at, "idle" between runs
    main_runs,            \* main(): the number of runs started
    main_day,             \* main(): the day of the last run
    main_df,              \* main(): df, the scraped and scored snapshot
    sync_db,              \* main(): its sync_db argument
    history_csv,          \* bmw_cars_history.csv
    equipment_csv,        \* bmw_cars_equipment_history.csv
    scores_csv,           \* bmw_cars_scores_history.csv
    start_csv,            \* the three files as the run found them
    mem_history,          \* main(): merged_history
    mem_equipment,        \* main(): merged_equipment
    mem_scores,           \* main(): merged_scores
    main_failed,          \* main(): the step that raised, "none" if none
    stats,                \* main(): the stats dictionary
    notifications,        \* the notifications sent by the run
    df_export,            \* main(): the exported table of current rows
    sync_calls,           \* the table syncs that sync_all has called
    sync_results,         \* what each table sync returned
    sync_returned,        \* the value sync_all returned
    clock,                \* the wall clock, in seconds
    ticks,                \* the number of times the clock has advanced
    invocations,          \* the number of wrapper invocations started
    last_check,           \* .bmw_last_wake_check: <<>> if absent, else <<t>>
    run_log,              \* .bmw_scraping_runs.log: the day of each line
    history_file,         \* bmw_cars_history.csv: the number of merges in it
    pc,                   \* the position of each wrapper process
    CURRENT_TIME,         \* CURRENT_TIME of each wrapper process
    TODAY,                \* TODAY of each wrapper process
    loaded,               \* the history each running pipeline has loaded
    LAST_CHECK,           \* LAST_CHECK of each wrapper process, <<>> if unread
    RUNS_TODAY,           \* RUNS_TODAY of each wrapper process
    invocation,           \* the number of the invocation each process is
    launches,             \* the launches of src.bmw.main so far
    last_start,           \* the time of the latest invocation, <<>> if none
    close_spaced,         \* no two successive invocations were over WakeGap apart
    load_file,            \* a loader: the file it is given
    load_columns,         \* a loader: its canonical column set
    bmw_cars,             \* remote table bmw_cars: its car_ids
    bmw_cars_scores,      \* remote table bmw_cars_scores, a row's index its id
    merged_scores_df,     \* sync_scores: the table the last call was given
    scores_before,        \* sync_scores: bmw_cars_scores before the last call
    records_to_insert,    \* sync_scores: the rows the last call would insert
    records_to_update,    \* sync_scores: the updates the last call would make
    inserted,             \* sync_scores: the rows the last call inserted
    updated,              \* sync_scores: the updates the last call executed
    scores_synced,        \* sync_scores: "none", or what the last call returned
    sync_scores_calls,    \* number of sync_scores calls so far
    load_returned,        \* a loader: it has returned
    loaded_df,            \* a loader: the table it returned
    merged_equipment,     \* the equipment history returned by the last run
    equipment_history_df, \* the equipment history the last run was given
    new_equipment_df,     \* the de-duplicated equipment batch of the last run
    merged_scores,        \* the scores history returned by the last run
    scores_history_df,    \* the scores history the last run was given
    new_scores_df,        \* the de-duplicated scores batch of the last run
    merged_history,   \* the history table returned by the last merge
    history_df,       \* the history table the last merge was given
    current_data,     \* the snapshot of the last merge
    today,            \* scrape_date.date() of the last merge (NoDate before)
    new_records,      \* the rows the last merge emitted
    runs,             \* number of merges so far
    first_appearance, \* history variable: day a key first was in a snapshot
    replacements      \* history variable: (closed old row, new open row) pairs

entity_vars == <<merged_history, history_df, current_data, today, new_records,
                 runs, first_appearance, replacements>>

compare_vars == <<cmp_old_record, cmp_new_record, cmp_tracking_cols,
                  cmp_returned, cmp_changed>>

pipeline_vars == <<merged_equipment, equipment_history_df, new_equipment_df,
                   merged_scores, scores_history_df, new_scores_df>>

load_vars == <<load_file, load_columns, load_returned, loaded_df>>

sync_vars == <<bmw_cars, bmw_cars_scores, merged_scores_df, scores_before,
               records_to_insert, records_to_update, inserted, updated,
               scores_synced, sync_scores_calls>>

timer_vars == <<trigger_utc, utc_offset, timer_returned, current_hour,
                current_minute, pipeline_executed>>

main_vars == <<main_pc, main_runs, main_day, main_df, sync_db, history_csv,
               equipment_csv, scores_csv, start_csv, mem_history,
               mem_equipment, mem_scores, main_failed, stats, notifications,
               df_export, sync_calls, sync_results, sync_returned>>

launchd_vars == <<clock, ticks, invocations, last_check, run_log,
                  history_file, pc, CURRENT_TIME, TODAY, loaded, LAST_CHECK,
                  RUNS_TODAY, invocation, launches, last_start, close_spaced>>

vars == <<entity_vars, compare_vars, pipeline_vars, load_vars, launchd_vars,
         main_vars,
         timer_vars,
         sync_vars>>

\* --------------------------------------------------------------- helpers
Range(s) == {s[i] : i \in DOMAIN s}

car_ids(df) == {df[i].car_id : i \in DOMAIN df}

RowsOf(df, k) == SelectSeq(df, LAMBDA r : r.car_id = k)

\* pd.notna(v) that takes only None for missing
notna_none_only(v) == v # NoValue

\* pd.notna(v)
notna(v) == v \notin {NoValue, NaN}

\* get_latest_records: the rows with is_latest == True
get_latest_records(df) == SelectSeq(df, LAMBDA r : r.is_latest = TRUE)

\* str(v) of a value of column col: None -> 'None', NaN -> 'nan', a string
\* is itself; the numeral of a car_id and the JSON text of equipments are
\* in one-to-one correspondence with the values
str_value(col, v) ==
    IF col \in TextColumns
    THEN IF v = NoneText THEN "None" ELSE IF v = NaNText THEN "nan" ELSE v
    ELSE v

\* the test of one column in compare_records (lines 38-45)
col_changed(old_record, new_record, col) ==
    IF col \in NumericColumns
    THEN LET old_val == IF notna(old_record[col]) THEN old_record[col]
                                                  ELSE NoValue
             new_val == IF notna(new_record[col]) THEN new_record[col]
                                                  ELSE NoValue
         IN  old_val # new_val
    ELSE str_value(col, old_record[col]) # str_value(col, new_record[col])

\* compare_records(old_record, new_record, tracking_cols) (lines 35-46):
\* return True at the first column that differs, False after the last
RECURSIVE compare_loop(_, _, _)
compare_loop(old_record, new_record, tracking_cols) ==
    IF tracking_cols = <<>> THEN FALSE
    ELSE IF col_changed(old_record, new_record, Head(tracking_cols))
         THEN TRUE
         ELSE compare_loop(old_record, new_record, Tail(tracking_cols))

\* compare_records(old_record, row, TRACKING_COLUMNS) as called at line 90
compare_records(old_record, new_record) ==
    compare_loop(old_record, new_record,
        SelectSeq(TRACKING_COLUMNS, LAMBDA col : col \in DOMAIN new_record))

\* a new row that is stamped closed on the day it is opened
NewCarRow_closed(row, d) ==
    [car_id |-> row.car_id, price |-> row.price,
     first_seen_date |-> d, last_seen_date |-> d,
     valid_from |-> d, valid_to |-> d,
     is_latest |-> TRUE, status |-> "active", scrape_date |-> d]

\* row.to_dict() followed by .update({...}): the columns of the snapshot row
\* are kept, the stamped columns are set
to_dict_update(row, stamps) ==
    [f \in DOMAIN row \cup DOMAIN stamps |->
        IF f \in DOMAIN stamps THEN stamps[f] ELSE row[f]]

\* NEW CAR branch (lines 73-86)
NewCarRow(row, d) ==
    to_dict_update(row,
        [first_seen_date |-> d, last_seen_date |-> d,
         valid_from |-> d, valid_to |-> NoDate,
         is_latest |-> TRUE, status |-> "active", scrape_date |-> d])

\* DATA CHANGED branch, the expired old row (lines 94-100)
ExpiredRow(old_row, d) ==
    [old_row EXCEPT !.valid_to = d, !.is_latest = FALSE]

\* a new version that restarts first_seen_date instead of copying it
ChangedRow_restart(row, old_record, d) ==
    [car_id |-> row.car_id, price |-> row.price,
     first_seen_date |-> d, last_seen_date |-> d,
     valid_from |-> d, valid_to |-> NoDate,
     is_latest |-> TRUE, status |-> "active", scrape_date |-> d]

\* DATA CHANGED branch, the new version (lines 102-112)
ChangedRow(row, old_record, d) ==
    to_dict_update(row,
        [first_seen_date |-> old_record.first_seen_date, last_seen_date |-> d,
         valid_from |-> d, valid_to |-> NoDate,
         is_latest |-> TRUE, status |-> "active", scrape_date |-> d])

\* NO CHANGE branch (lines 113-119)
UnchangedRow(old_record, d) ==
    [old_record EXCEPT !.last_seen_date = d, !.scrape_date = d]

\* a retired row that stays the latest version of its key
SoldRow_open(old_record, d) ==
    [old_record EXCEPT !.valid_to = d, !.status = "sold"]

\* SOLD/REMOVED branch (lines 127-135)
SoldRow(old_record, d) ==
    [old_record EXCEPT !.valid_to = d, !.is_latest = FALSE, !.status = "sold"]

\* the body of the loop over current_data for one row (lines 67-119)
RowRecords(row, latest_df, hist, d) ==
    LET old_records == RowsOf(latest_df, row.car_id)
    IN  IF old_records = <<>>
        THEN <<NewCarRow(row, d)>>
        ELSE LET old_record == old_records[1]
                 old_row == SelectSeq(hist, LAMBDA r :
                               r.car_id = row.car_id /\ r.is_latest = TRUE)[1]
             IN  IF compare_records(old_record, row)
                 THEN <<ExpiredRow(old_row, d), ChangedRow(row, old_record, d)>>
                 ELSE <<UnchangedRow(old_record, d)>>

RECURSIVE SnapshotRecords(_, _, _, _)
SnapshotRecords(data, latest_df, hist, d) ==
    IF data = <<>> THEN <<>>
    ELSE RowRecords(Head(data), latest_df, hist, d)
            \o SnapshotRecords(Tail(data), latest_df, hist, d)

\* a selection that forgets the processed_ids test
disappeared_cars_all(latest_df, processed_ids) ==
    SelectSeq(latest_df, LAMBDA r : r.status = "active")

\* lines 121-125
disappeared_cars(latest_df, processed_ids) ==
    SelectSeq(latest_df, LAMBDA r :
        r.car_id \notin processed_ids /\ r.status = "active")

\* a merge that drops the disappeared cars instead of closing them
SoldRecords_dropped(latest_df, processed_ids, d) == <<>>

\* lines 127-135
SoldRecords(latest_df, processed_ids, d) ==
    LET gone == disappeared_cars(latest_df, processed_ids)
    IN  [i \in 1..Len(gone) |-> SoldRow(gone[i], d)]

\* new_records at line 141
NewRecords(data, hist, d) ==
    LET latest_df == get_latest_records(hist)
    IN  SnapshotRecords(data, latest_df, hist, d)
            \o SoldRecords(latest_df, car_ids(data), d)

\* a merge that concatenates the whole existing history with the new records
old_history_whole(hist, d) == hist

\* lines 137-140: the closed rows carried over
old_history(hist, d) ==
    SelectSeq(hist, LAMBDA r :
        r.is_latest = FALSE /\ r.valid_to # NoDate /\ r.valid_to < d)

\* merge_historical_data(current_data, history_df, scrape_date)
merge_historical_data(data, hist, d) ==
    old_history(hist, d) \o NewRecords(data, hist, d)

\* ------------------------------------------------------------- snapshots
\* A snapshot: a non-empty table with one row per key of some set of keys
\* (main() returns before the merge when the scrape is empty).
RECURSIVE SnapshotOf(_, _)
SnapshotOf(f, ks) ==
    IF ks = {} THEN <<>>
    ELSE LET k == CHOOSE x \in ks : \A y \in ks : x <= y
         IN  <<[car_id |-> k, price |-> f[k]]>> \o SnapshotOf(f, ks \ {k})

Snapshots ==
    UNION {{SnapshotOf(f, ks) :
               f \in {g \in [ks -> Prices] :
                        \A k \in ks \ VaryingKeys : g[k] = ListPrice}} :
              ks \in (SUBSET Keys) \ {{}}}

\* ------------------------------------------------ equipment and scores
\* the equipments column: None, or the JSON text of a dict category -> list
\* of names, here the list of its (category, items) entries
NoEquipments == <<>>
EquipmentsA ==
    <<[category |-> "Comfort", items |-> <<"Heated seats", "Heated seats">>],
      [category |-> "Safety", items |-> <<"ABS">>]>>
EquipmentsB ==
    <<[category |-> "Comfort", items |-> <<"Sunroof">>]>>
Equipments == {NoEquipments, EquipmentsA, EquipmentsB}

\* the score columns of a scored snapshot row (two of the five)
ScoreColumns == {"value_efficiency_score", "final_score"}
NoScores == [value_efficiency_score |-> NoValue, final_score |-> NoValue]
SomeScores == [value_efficiency_score |-> NoValue, final_score |-> 50]
ScoreSets == {NoScores, SomeScores}

\* the rows of df at the indices of keep, in order
RECURSIVE TakeRows(_, _, _)
TakeRows(df, keep, i) ==
    IF i > Len(df) THEN <<>>
    ELSE (IF i \in keep THEN <<df[i]>> ELSE <<>>) \o TakeRows(df, keep, i + 1)

\* df.drop_duplicates(subset=..., keep='last')
drop_duplicates(df, subset) ==
    TakeRows(df, {i \in DOMAIN df : \A j \in DOMAIN df :
                     j > i => \E c \in Range(subset) : df[j][c] # df[i][c]}, 1)

\* a stamp that is always the day of the run
date_or_today_run(v, today_str) == today_str

\* lines 234-237 and 244-247: a date column of the car row, today if missing
date_or_today(v, today_str) == IF v # NoDate THEN v ELSE today_str

\* the inner loop of extract_equipment_from_json (lines 186-203) over the
\* names of one category; seen is the set of (category, name) met so far
RECURSIVE CategoryRecords(_, _, _, _)
CategoryRecords(stamp, category, equipment_list, seen) ==
    IF equipment_list = <<>> THEN <<>>
    ELSE LET equipment_name == Head(equipment_list)
             unique_key == <<category, equipment_name>>
         IN  IF unique_key \in seen
             THEN CategoryRecords(stamp, category, Tail(equipment_list), seen)
             ELSE <<to_dict_update(stamp, [category |-> category,
                                          equipment_name |-> equipment_name])>>
                  \o CategoryRecords(stamp, category, Tail(equipment_list),
                                     seen \cup {unique_key})

\* the outer loop of extract_equipment_from_json (lines 184-203)
RECURSIVE ExtractRecords(_, _, _)
ExtractRecords(stamp, equipment_data, seen) ==
    IF equipment_data = <<>> THEN <<>>
    ELSE LET e == Head(equipment_data)
             recs == CategoryRecords(stamp, e.category, e.items, seen)
         IN  recs \o ExtractRecords(stamp, Tail(equipment_data),
                        seen \cup {<<e.category, e.items[i]>> :
                                      i \in DOMAIN e.items})

\* extract_equipment_from_json (lines 172-207)
extract_equipment_from_json(car_id, equipments_json, vf, vt, latest, sd) ==
    IF equipments_json = NoEquipments THEN <<>>
    ELSE ExtractRecords([car_id |-> car_id, valid_from |-> vf,
                         valid_to |-> vt, is_latest |-> latest,
                         scrape_date |-> sd],
                        equipments_json, {})

\* the loop of merge_equipment_history over latest_cars (lines 222-256)
RECURSIVE NewEquipmentRecords(_, _)
NewEquipmentRecords(latest_cars, today_str) ==
    IF latest_cars = <<>> THEN <<>>
    ELSE LET car_row == Head(latest_cars)
         IN  extract_equipment_from_json(
                 car_row.car_id, car_row.equipments,
                 date_or_today(car_row.valid_from, today_str),
                 car_row.valid_to, car_row.is_latest,
                 date_or_today(car_row.scrape_date, today_str))
             \o NewEquipmentRecords(Tail(latest_cars), today_str)

\* new_equipment_df after drop_duplicates (lines 258-269)
NewEquipmentBatch(car_history_df, today_str) ==
    drop_duplicates(
        NewEquipmentRecords(get_latest_records(car_history_df), today_str),
        <<"car_id", "category", "equipment_name">>)

\* merge_equipment_history (lines 210-280)
merge_equipment_history(car_history_df, equipment_history, today_str) ==
    equipment_history \o NewEquipmentBatch(car_history_df, today_str)

\* merged_history.merge(df_scores, on='car_id', how='left') (main.py 202-208)
with_scores(hist, df) ==
    [i \in DOMAIN hist |->
        LET m == RowsOf(df, hist[i].car_id)
        IN  to_dict_update(hist[i],
                IF m = <<>>
                THEN [value_efficiency_score |-> NaN, final_score |-> NaN]
                ELSE [value_efficiency_score |-> m[1].value_efficiency_score,
                      final_score |-> m[1].final_score])]

\* the score record of one car row (lines 344-355)
score_record(car_row, today_str) ==
    [car_id |-> car_row.car_id,
     value_efficiency_score |->
        IF notna(car_row.value_efficiency_score)
        THEN car_row.value_efficiency_score ELSE NoValue,
     final_score |->
        IF notna(car_row.final_score) THEN car_row.final_score ELSE NoValue,
     valid_from |-> date_or_today(car_row.valid_from, today_str),
     valid_to |-> car_row.valid_to,
     is_latest |-> car_row.is_latest,
     scrape_date |-> date_or_today(car_row.scrape_date, today_str)]

\* the loop of merge_scores_history over latest_cars (lines 311-359): a car
\* whose scores are all missing gets no record (line 342)
RECURSIVE NewScoresRecords(_, _)
NewScoresRecords(latest_cars, today_str) ==
    IF latest_cars = <<>> THEN <<>>
    ELSE LET car_row == Head(latest_cars)
         IN  (IF notna(car_row.value_efficiency_score)
                 \/ notna(car_row.final_score)
              THEN <<score_record(car_row, today_str)>>
              ELSE <<>>)
             \o NewScoresRecords(Tail(latest_cars), today_str)

\* new_scores_df after drop_duplicates (lines 361-371)
NewScoresBatch(car_history_df, today_str) ==
    drop_duplicates(
        NewScoresRecords(get_latest_records(car_history_df), today_str),
        <<"car_id">>)

\* merge_scores_history (lines 299-382)
merge_scores_history(car_history_df, scores_history, today_str) ==
    scores_history \o NewScoresBatch(car_history_df, today_str)

\* df[TRACKING_COLUMNS + ['link']] (main.py 144-145)
df_tracking(df) ==
    [i \in DOMAIN df |-> [car_id |-> df[i].car_id, price |-> df[i].price,
                          equipments |-> df[i].equipments]]

\* the scored snapshots of a pipeline run: the cars of VaryingKeys come with
\* any equipments and scores, the others with EquipmentsA and SomeScores
RECURSIVE ScoredSnapshotOf(_, _, _)
ScoredSnapshotOf(e, sc, ks) ==
    IF ks = {} THEN <<>>
    ELSE LET k == CHOOSE x \in ks : \A y \in ks : x <= y
         IN  <<[car_id |-> k, price |-> ListPrice, equipments |-> e[k],
                value_efficiency_score |-> sc[k].value_efficiency_score,
                final_score |-> sc[k].final_score]>>
             \o ScoredSnapshotOf(e, sc, ks \ {k})

ScoredSnapshots ==
    UNION {{ScoredSnapshotOf(e, sc, ks) :
               e \in {g \in [ks -> Equipments] :
                        \A k \in ks \ VaryingKeys : g[k] = EquipmentsA},
               sc \in {g \in [ks -> ScoreSets] :
                        \A k \in ks \ VaryingKeys : g[k] = SomeScores}} :
              ks \in (SUBSET Keys) \ {{}}}

\* no pipeline run has touched the equipment and scores histories
PipelineIdle ==
    /\ merged_equipment = <<>>
    /\ equipment_history_df = <<>>
    /\ new_equipment_df = <<>>
    /\ merged_scores = <<>>
    /\ scores_history_df = <<>>
    /\ new_scores_df = <<>>

\* ------------------------------------------------------ the loaders
HISTORY_COLUMNS ==
    <<"car_id", "model_name", "price", "kilometers", "registration_date",
      "horse_power_kw", "horse_power_ps", "battery_range_km", "equipments",
      "first_seen_date", "last_seen_date", "valid_from", "valid_to",
      "is_latest", "status", "link", "scrape_date">>
EQUIPMENT_COLUMNS ==
    <<"car_id", "category", "equipment_name", "valid_from", "valid_to",
      "is_latest", "scrape_date">>
SCORES_COLUMNS ==
    <<"car_id", "value_efficiency_score", "age_usage_score",
      "performance_range_score", "equipment_score", "final_score",
      "valid_from", "valid_to", "is_latest", "scrape_date">>

\* the text of the days 1 and 2 as the pipeline writes them
DateTexts == <<"2025-01-01", "2025-01-02">>
\* the texts a timestamp cell of a stored file can hold
TimestampTexts == Range(DateTexts) \cup {"NaT", "not a date"}

\* a parse that reads a malformed text as day 1
to_datetime_first(text) ==
    IF text \in Range(DateTexts)
    THEN CHOOSE d \in DOMAIN DateTexts : DateTexts[d] = text
    ELSE 1

\* pd.to_datetime(df[col], errors='coerce') on one cell (lines 19, 163, 290)
to_datetime(text) ==
    IF text \in Range(DateTexts)
    THEN CHOOSE d \in DOMAIN DateTexts : DateTexts[d] = text
    ELSE NoDate

EmptyTable(columns) == [columns |-> columns, rows |-> <<>>]

\* load_historical_data, load_equipment_history, load_scores_history
\* (lines 12-25, 156-169, 283-296), columns being the canonical column set
load_history(file, columns) ==
    IF file.state = "missing" THEN EmptyTable(columns)
    ELSE IF file.state = "unreadable" THEN EmptyTable(columns)
    ELSE [columns |-> columns,
          rows |-> [i \in DOMAIN file.rows |->
                       [file.rows[i] EXCEPT
                           !.valid_from = to_datetime(@),
                           !.valid_to = to_datetime(@)]]]

\* the rows of a stored file, timestamps as text
FileRows ==
    [car_id : {1}, valid_from : TimestampTexts, valid_to : TimestampTexts]

RECURSIVE FileContents(_)
FileContents(n) ==
    IF n = 0 THEN {<<>>}
    ELSE FileContents(n - 1) \cup
         {Append(c, r) : c \in {x \in FileContents(n - 1) : Len(x) = n - 1},
                         r \in FileRows}

\* a file is missing, present but unreadable, or a readable table
Files ==
    {[state |-> "missing", rows |-> <<>>],
     [state |-> "unreadable", rows |-> <<>>]} \cup
    {[state |-> "ok", rows |-> c] : c \in FileContents(MaxFileRows)}

\* no loader has been called
LoadIdle ==
    /\ load_file = [state |-> "missing", rows |-> <<>>]
    /\ load_columns = HISTORY_COLUMNS
    /\ load_returned = FALSE
    /\ loaded_df = EmptyTable(HISTORY_COLUMNS)

\* ------------------------------------------------ the launchd wrapper
\* TIME_DIFF <= 1800 (run_bmw_scraping_launchd.py line 33)
WakeGap == 1800
\* RUNS_TODAY >= 2 (line 48)
MaxRunsPerDay == 2
\* the seconds of a day, TODAY being the day of the clock (line 20)
DaySeconds == 86400

Procs == 1..NumProcs
\* the amounts by which the clock advances between two steps
ClockSteps == {WakeGap, WakeGap + 1, DaySeconds}

\* time.strftime("%Y-%m-%d") at the time t
DayOf(t) == t \div DaySeconds

\* sum(1 for line in f if line.startswith(TODAY)) (lines 43-45)
RunsOn(log, day) == Cardinality({i \in DOMAIN log : log[i] = day})

\* no wrapper runs and none has run
LaunchdIdle ==
    /\ clock = 0
    /\ ticks = 0
    /\ invocations = 0
    /\ last_check = <<>>
    /\ run_log = <<>>
    /\ history_file = 0
    /\ pc = [p \in Procs |-> "idle"]
    /\ CURRENT_TIME = [p \in Procs |-> 0]
    /\ TODAY = [p \in Procs |-> 0]
    /\ loaded = [p \in Procs |-> 0]
    /\ LAST_CHECK = [p \in Procs |-> <<>>]
    /\ RUNS_TODAY = [p \in Procs |-> 0]
    /\ invocation = [p \in Procs |-> 0]
    /\ launches = <<>>
    /\ last_start = <<>>
    /\ close_spaced = TRUE

\* ---------------------------------------------------------- main()
\* the snapshots a run of main() scrapes: no car at all, or some cars, each
\* with EquipmentsA and SomeScores
MainSnapshots ==
    {<<>>} \cup
    {ScoredSnapshotOf([k \in ks |-> EquipmentsA], [k \in ks |-> SomeScores], ks) :
        ks \in (SUBSET Keys) \ {{}}}

\* the stats dictionary at the start of main() (main.py lines 52-61)
InitialStats(sync) ==
    [success |-> FALSE, cars_scraped |-> 0, active_cars |-> 0,
     sold_cars |-> 0, total_unique_cars |-> 0, db_synced |-> FALSE,
     sync_db |-> sync, error |-> "none"]

\* the message of notify_scraping_complete(stats) (notify.py lines 58-74)
notify_scraping_complete(st) ==
    IF st.success
    THEN [title |-> "Success",
          database |-> IF st.sync_db
                       THEN IF st.db_synced THEN "Synced" ELSE "Sync failed"
                       ELSE "Not synced"]
    ELSE [title |-> "Failed", database |-> "none"]

\* latest_records.merge(latest_scores[...], on='car_id', how='left')
\* (main.py lines 238-243): one row per matching scores row, the car row
\* with missing scores if there is none
RECURSIVE left_merge(_, _)
left_merge(left, right) ==
    IF left = <<>> THEN <<>>
    ELSE LET m == RowsOf(right, Head(left).car_id)
         IN  (IF m = <<>>
              THEN <<to_dict_update(Head(left),
                        [value_efficiency_score |-> NaN, final_score |-> NaN])>>
              ELSE [i \in DOMAIN m |->
                      to_dict_update(Head(left),
                        [value_efficiency_score |-> m[i].value_efficiency_score,
                         final_score |-> m[i].final_score])])
             \o left_merge(Tail(left), right)

\* df_export of step 6 (main.py lines 233-249)
ExportOf(hist, scores) ==
    IF get_latest_records(scores) = <<>>
    THEN get_latest_records(hist)
    ELSE left_merge(get_latest_records(hist), get_latest_records(scores))

\* len(df_export[df_export['status'] == s]) (main.py lines 262-263)
CountStatus(df, s) == Cardinality({i \in DOMAIN df : df[i].status = s})

\* the table syncs of sync_all in the order it calls them
SyncNames == <<"cars", "cars_history", "equipment", "scores">>

\* success = True; success &= self.sync_...(...) four times; return success
\* (database.py lines 498-513); results[i] is what the i-th table sync returns
RECURSIVE sync_all(_, _, _, _)
sync_all(results, i, success, calls) ==
    IF i > Len(SyncNames)
    THEN [calls |-> calls, returned |-> success]
    ELSE sync_all(results, i + 1, success /\ results[i],
                  Append(calls, SyncNames[i]))

\* every table sync returns True
AllSynced == [i \in DOMAIN SyncNames |-> TRUE]

\* main() is not running and has never run
MainIdle ==
    /\ main_pc = "idle"
    /\ main_runs = 0
    /\ main_day = NoDate
    /\ main_df = <<>>
    /\ sync_db = FALSE
    /\ history_csv = <<>>
    /\ equipment_csv = <<>>
    /\ scores_csv = <<>>
    /\ start_csv = [history |-> <<>>, equipment |-> <<>>, scores |-> <<>>]
    /\ mem_history = <<>>
    /\ mem_equipment = <<>>
    /\ mem_scores = <<>>
    /\ main_failed = "none"
    /\ stats = InitialStats(FALSE)
    /\ notifications = <<>>
    /\ df_export = <<>>
    /\ sync_calls = <<>>
    /\ sync_results = AllSynced
    /\ sync_returned = FALSE

\* ------------------------------------------------- the timer function
\* Brussels time is UTC+1 (CET) in winter and UTC+2 (CEST) in summer
CET == 1
CEST == 2
\* the schedule 0 0 8,13 * * * (BmwScrapingFunction/__init__.py line 69)
ScheduleHours == {8, 13}
\* current_hour == 10 ..., current_hour == 15 ... (lines 92-93)
RunHours == {10, 15}
\* current_minute < 5 (lines 92-93)
WindowMinutes == 5

\* the UTC times at which a trigger is considered
TriggerTimes == [hour : 0..23, minute : {0, 4, 5, 59}]

\* datetime.now(brussels_tz) at the UTC time t (lines 80-83)
BrusselsTime(t, offset) ==
    [hour |-> (t.hour + offset) % 24, minute |-> t.minute]

\* the test of lines 92-93: the function goes on to run the pipeline
InWindow(hour, minute) == hour \in RunHours /\ minute < WindowMinutes

\* the timer has not fired
TimerIdle ==
    /\ trigger_utc = [hour |-> 0, minute |-> 0]
    /\ utc_offset = CET
    /\ timer_returned = FALSE
    /\ current_hour = 0
    /\ current_minute = 0
    /\ pipeline_executed = FALSE

\* sync_scores has not been called and the remote tables are empty
SyncIdle ==
    /\ bmw_cars = {}
    /\ bmw_cars_scores = <<>>
    /\ merged_scores_df = <<>>
    /\ scores_before = <<>>
    /\ records_to_insert = <<>>
    /\ records_to_update = <<>>
    /\ inserted = <<>>
    /\ updated = <<>>
    /\ scores_synced = "none"
    /\ sync_scores_calls = 0

\* ------------------------------------------------------------ the system
\* compare_records has not been called
CompareIdle ==
    /\ cmp_old_record = [model_name |-> NoneText, price |-> NoValue,
                         kilometers |-> NoValue]
    /\ cmp_new_record = [model_name |-> NoneText, price |-> NoValue,
                         kilometers |-> NoValue]
    /\ cmp_tracking_cols = <<>>
    /\ cmp_returned = FALSE
    /\ cmp_changed = FALSE

\* no merge has run
EntityIdle ==
    /\ merged_history = <<>>
    /\ history_df = <<>>
    /\ current_data = <<>>
    /\ today = NoDate
    /\ new_records = <<>>
    /\ runs = 0
    /\ first_appearance = [k \in Keys |-> NoDate]
    /\ replacements = {}

Init ==
    /\ EntityIdle
    /\ CompareIdle
    /\ PipelineIdle
    /\ LoadIdle
    /\ LaunchdIdle
    /\ MainIdle
    /\ TimerIdle
    /\ SyncIdle

\* the (old, new) pairs of the DATA CHANGED branch of one merge
ChangedPairs(recs) ==
    {[old |-> recs[i], new |-> recs[i + 1]] : i \in
        {j \in 1..(Len(recs) - 1) :
            /\ recs[j].is_latest = FALSE
            /\ recs[j].status = "active"
            /\ recs[j + 1].is_latest = TRUE
            /\ recs[j + 1].car_id = recs[j].car_id}}

\* one pipeline run's merge: history is loaded, merged with the snapshot of
\* the day, and stored.
Merge ==
    /\ runs < MaxRuns
    /\ \E data \in Snapshots, d \in Days :
        /\ d \in {today, today + 1}
        /\ history_df' = merged_history
        /\ current_data' = data
        /\ today' = d
        /\ new_records' = NewRecords(data, merged_history, d)
        /\ merged_history' = merge_historical_data(data, merged_history, d)
        /\ first_appearance' =
              [k \in Keys |-> IF first_appearance[k] = NoDate
                                 /\ k \in car_ids(data)
                              THEN d ELSE first_appearance[k]]
        /\ replacements' = replacements \cup
              ChangedPairs(NewRecords(data, merged_history, d))
    /\ runs' = runs + 1
    /\ UNCHANGED <<compare_vars, pipeline_vars, load_vars, launchd_vars, main_vars, timer_vars, sync_vars>>

Next == Merge

Spec == Init /\ [][Next]_vars

\* ------------------------------------------------- vocabulary of the claims
\* the is_latest rows of key k in a history
LatestOf(hist, k) == RowsOf(get_latest_records(hist), k)

\* the row of key k in the last snapshot
SnapRow(k) == RowsOf(current_data, k)[1]

\* keys of the last snapshot that had no is_latest row
NewKeys == {k \in car_ids(current_data) : LatestOf(history_df, k) = <<>>}

\* keys of the last snapshot whose tracked field differs from the is_latest row
ChangedKeys ==
    {k \in car_ids(current_data) :
        /\ LatestOf(history_df, k) # <<>>
        /\ LatestOf(history_df, k)[1].price # SnapRow(k).price}

\* keys live and active before the last merge and absent from its snapshot
RetiredKeys ==
    {k \in Keys \ car_ids(current_data) :
        /\ LatestOf(history_df, k) # <<>>
        /\ LatestOf(history_df, k)[1].status = "active"}

ClosedRows(hist) == SelectSeq(hist, LAMBDA r : r.is_latest = FALSE)

\* ------------------------------------------------------------------- C1
\* C1: after any sequence of merges with unique-key snapshots every key has
\* at most one is_latest row: exactly one while the key is live (in the last
\* snapshot), none once it has been retired or before it was ever seen.
C1_AtMostOneLatest ==
    \A k \in Keys :
        LET n == Len(LatestOf(merged_history, k))
        IN  /\ n <= 1
            /\ runs > 0 => (n = 1 <=> k \in car_ids(current_data))

\* a key with closed versions and a live one, next to a retired key
C1_Witness ==
    \E k, j \in Keys :
        /\ Len(LatestOf(merged_history, k)) = 1
        /\ Len(ClosedRows(RowsOf(merged_history, k))) >= 1
        /\ LatestOf(merged_history, j) = <<>>
        /\ RowsOf(merged_history, j) # <<>>

\* ------------------------------------------------------------------- C2
\* C2: a merge never deletes or alters a previously-closed row: every row
\* with is_latest = false of the existing history is in the returned one,
\* also when as_of equals the row's valid_to.
C2_ClosedRowsKept ==
    \A i \in DOMAIN history_df :
        history_df[i].is_latest = FALSE =>
            \E j \in DOMAIN merged_history : merged_history[j] = history_df[i]

\* ------------------------------------------------------------------- C3
\* C3: every row of a key carries the same first_seen_at, the as_of of the
\* key's earliest appearance, also when the key is retired and reappears.
C3_FirstSeenImmutable ==
    \A i \in DOMAIN merged_history :
        merged_history[i].first_seen_date
            = first_appearance[merged_history[i].car_id]

\* ------------------------------------------------------------------- C4
\* C4: every closed row has a non-null valid_to and valid_from < valid_to,
\* also for a version opened and closed by two runs of the same date.
C4_ClosedIntervalNonEmpty ==
    \A i \in DOMAIN merged_history :
        merged_history[i].is_latest = FALSE =>
            /\ merged_history[i].valid_to # NoDate
            /\ merged_history[i].valid_from < merged_history[i].valid_to

\* ------------------------------------------------------------------- C5
\* C5: no gaps and no overlaps: for each version in the history that
\* replaced an earlier one, the replaced version is in the history and its
\* valid_to equals the valid_from of the version that replaced it.
SameVersion(r, v) ==
    /\ r.car_id = v.car_id
    /\ r.price = v.price
    /\ r.valid_from = v.valid_from
    /\ r.first_seen_date = v.first_seen_date

C5_NoGapsNoOverlaps ==
    \A p \in replacements :
        (\E i \in DOMAIN merged_history : SameVersion(merged_history[i], p.new))
            => \E j \in DOMAIN merged_history :
                   /\ merged_history[j] = p.old
                   /\ merged_history[j].valid_to = p.new.valid_from

\* ------------------------------------------------------------------- C6
\* C6: a snapshot key with no is_latest row in the history yields exactly
\* one new row for that key, with first_seen_at = last_seen_at = valid_from
\* = as_of, valid_to = null, is_latest = true, status = active, and the rows
\* of every other key are what the merge yields without that key.
WithoutKey(data, k) == SelectSeq(data, LAMBDA r : r.car_id # k)

C7_ChangeClosesAndReopens ==
    \A k \in ChangedKeys :
        LET old == LatestOf(history_df, k)[1]
            emitted == RowsOf(new_records, k)
        IN  /\ Len(emitted) = 2
            /\ emitted[1] = [car_id |-> k, price |-> old.price,
                             first_seen_date |-> old.first_seen_date,
                             last_seen_date |-> old.last_seen_date,
                             valid_from |-> old.valid_from,
                             valid_to |-> today, is_latest |-> FALSE,
                             status |-> old.status,
                             scrape_date |-> old.scrape_date]
            /\ emitted[2] = [car_id |-> k, price |-> SnapRow(k).price,
                             first_seen_date |-> old.first_seen_date,
                             last_seen_date |-> today,
                             valid_from |-> today,
                             valid_to |-> NoDate, is_latest |-> TRUE,
                             status |-> "active",
                             scrape_date |-> today]
            /\ \A i \in DOMAIN emitted :
                  \E j \in DOMAIN merged_history : merged_history[j] = emitted[i]

\* a version first seen on an earlier day is changed
C7_Witness ==
    \E k \in ChangedKeys :
        /\ LatestOf(history_df, k)[1].first_seen_date < today
        /\ LatestOf(history_df, k)[1].valid_from < today

\* ------------------------------------------------------------------- C8
\* C8: merging an unchanged snapshot yields a history of the same size in
\* which the live rows have last_seen_at and the scrape stamp set to as_of,
\* every other field of every row is unchanged and no closed row is added,
\* also when the history holds rows closed on the as_of date.
UnchangedSnapshot ==
    /\ runs > 1
    /\ car_ids(current_data) = car_ids(get_latest_records(history_df))
    /\ NewKeys = {}
    /\ ChangedKeys = {}

C8_NoOpRerun ==
    UnchangedSnapshot =>
        /\ Len(merged_history) = Len(history_df)
        /\ Len(ClosedRows(merged_history)) = Len(ClosedRows(history_df))
        /\ Range(merged_history) =
              {IF r.is_latest
               THEN [r EXCEPT !.last_seen_date = today, !.scrape_date = today]
               ELSE r : r \in Range(history_df)}

\* ------------------------------------------------------------------- C9
\* C9: every key whose is_latest row is active and that is absent from the
\* snapshot is retired: its row is replaced by a closing copy with valid_to
\* = as_of, is_latest = false, status = retired ("sold"); keys present in
\* the snapshot are never retired.
C9_DisappearanceRetires ==
    /\ \A k \in RetiredKeys :
          LET old == LatestOf(history_df, k)[1]
              closing == [old EXCEPT !.valid_to = today, !.is_latest = FALSE,
                                     !.status = "sold"]
          IN  /\ RowsOf(new_records, k) = <<closing>>
              /\ closing \in Range(merged_history)
              /\ old \notin Range(merged_history)
              /\ LatestOf(merged_history, k) = <<>>
    /\ \A k \in car_ids(current_data) :
          /\ \A i \in DOMAIN new_records :
                new_records[i].car_id = k => new_records[i].status = "active"
          /\ Len(LatestOf(merged_history, k)) = 1

\* a key is retired by a merge whose snapshot holds another, known key
C9_Witness ==
    /\ RetiredKeys # {}
    /\ \E k \in car_ids(current_data) : LatestOf(history_df, k) # <<>>

\* ------------------------------------------------------------------ C10
\* C10 as stated: when a merge retires a key the returned history has
\* strictly more rows than the existing history.
C10_RowCountIncreases ==
    RetiredKeys # {} => Len(merged_history) > Len(history_df)

\* C10 as amended: the retired key keeps a row -- the merge emits exactly one
\* row for it, the closing copy, in place of its one is_latest row -- so the
\* retirement adds no row: the emitted rows outnumber the existing is_latest
\* rows by one per changed or new snapshot key only.
C10_RetirementReplacesRow ==
    RetiredKeys # {} =>
        /\ \A k \in RetiredKeys :
              /\ Len(LatestOf(history_df, k)) = 1
              /\ Len(RowsOf(new_records, k)) = 1
              /\ Len(RowsOf(merged_history, k)) >= 1
        /\ Len(new_records) = Len(get_latest_records(history_df))
                                + Cardinality(NewKeys) + Cardinality(ChangedKeys)
        /\ Len(merged_history) <= Len(history_df)
                                + Cardinality(NewKeys) + Cardinality(ChangedKeys)

\* a retirement that leaves the row count as it was
C10_Witness ==
    /\ RetiredKeys # {}
    /\ Len(merged_history) = Len(history_df)
    /\ Len(history_df) >= 2

\* ------------------------------------------------------------------ C11
\* snapshots in which one key occurs twice (two scraped rows of one car)
DuplicateSnapshots ==
    {<<[car_id |-> k, price |-> p1], [car_id |-> k, price |-> p2]>> :
        k \in Keys, p1 \in Prices, p2 \in Prices}

\* a merge whose snapshot holds a key twice: merge_historical_data has no
\* test of the keys (lines 56-71) and runs its loop over both rows
MergeDuplicate ==
    /\ runs < MaxRuns
    /\ \E data \in DuplicateSnapshots, d \in Days :
        /\ d \in {today, today + 1}
        /\ history_df' = merged_history
        /\ current_data' = data
        /\ today' = d
        /\ new_records' = NewRecords(data, merged_history, d)
        /\ merged_history' = merge_historical_data(data, merged_history, d)
        /\ first_appearance' =
              [k \in Keys |-> IF first_appearance[k] = NoDate
                                 /\ k \in car_ids(data)
                              THEN d ELSE first_appearance[k]]
        /\ replacements' = replacements \cup
              ChangedPairs(NewRecords(data, merged_history, d))
    /\ runs' = runs + 1
    /\ UNCHANGED <<compare_vars, pipeline_vars, load_vars, launchd_vars, main_vars, timer_vars, sync_vars>>

NextDuplicate == Merge \/ MergeDuplicate

SpecDuplicate == Init /\ [][NextDuplicate]_vars

HasDuplicateKey(data) ==
    \E i, j \in DOMAIN data : i # j /\ data[i].car_id = data[j].car_id

\* C11: a merge given a snapshot in which a key occurs more than once fails:
\* it emits no rows, returns no history, and the prior history stays as it is.
C11_DuplicateKeyFails ==
    HasDuplicateKey(current_data) =>
        /\ new_records = <<>>
        /\ merged_history = history_df

\* ------------------------------------------------------ the pipeline runs
\* steps 3 to 5 of main(): the entity merge, then the equipment merge and
\* the scores merge on its result, each history stored after its merge
PipelineRun ==
    /\ runs < MaxPipelineRuns
    /\ \E df \in ScoredSnapshots, d \in Days :
        LET hist == merge_historical_data(df_tracking(df), merged_history, d)
        IN  /\ d \in {today, today + 1}
            /\ history_df' = merged_history
            /\ current_data' = df
            /\ today' = d
            /\ new_records' = NewRecords(df_tracking(df), merged_history, d)
            /\ merged_history' = hist
            /\ first_appearance' =
                  [k \in Keys |-> IF first_appearance[k] = NoDate
                                     /\ k \in car_ids(df)
                                  THEN d ELSE first_appearance[k]]
            /\ replacements' = replacements \cup
                  ChangedPairs(NewRecords(df_tracking(df), merged_history, d))
            /\ equipment_history_df' = merged_equipment
            /\ new_equipment_df' = NewEquipmentBatch(hist, d)
            /\ merged_equipment' =
                  merge_equipment_history(hist, merged_equipment, d)
            /\ scores_history_df' = merged_scores
            /\ new_scores_df' = NewScoresBatch(with_scores(hist, df), d)
            /\ merged_scores' =
                  merge_scores_history(with_scores(hist, df), merged_scores, d)
    /\ runs' = runs + 1
    /\ UNCHANGED <<compare_vars, load_vars, launchd_vars, main_vars, timer_vars, sync_vars>>

NextPipeline == PipelineRun

SpecPipeline == Init /\ [][NextPipeline]_vars

\* ------------------------------------------- claims about the pipeline
LatestRows(df) == Range(get_latest_records(df))

EquipmentKey(r) == <<r.car_id, r.category, r.equipment_name>>

\* the (category, name) pairs listed in an equipments value
PairsOf(equipments) ==
    UNION {{<<equipments[i].category, equipments[i].items[n]>> :
               n \in DOMAIN equipments[i].items} : i \in DOMAIN equipments}

\* C12: after any sequence of pipeline runs the is_latest partition of the
\* equipment history has no two rows with the same (car_id, category,
\* equipment_name).
C12_LatestEquipmentUnique ==
    LET latest == get_latest_records(merged_equipment)
    IN  \A i, j \in DOMAIN latest :
            EquipmentKey(latest[i]) = EquipmentKey(latest[j]) => i = j

\* C13: after any sequence of pipeline runs the scores history has at most
\* one is_latest row per car_id.
C13_LatestScoresUnique ==
    LET latest == get_latest_records(merged_scores)
    IN  \A i, j \in DOMAIN latest :
            latest[i].car_id = latest[j].car_id => i = j

\* C14: after any sequence of pipeline runs every is_latest equipment row
\* belongs to a car that has an is_latest row in the car history.
C14_EquipmentMirrorsCars ==
    \A e \in LatestRows(merged_equipment) :
        \E r \in LatestRows(merged_history) : r.car_id = e.car_id

\* C15: every run of merge_scores_history appends exactly one scores row for
\* every car of the latest partition of the car history, also for a car whose
\* scores are all missing.
C15_OneScoresRowPerLatestCar ==
    runs > 0 =>
        /\ merged_scores = scores_history_df \o new_scores_df
        /\ \A r \in LatestRows(merged_history) :
              Cardinality({i \in DOMAIN new_scores_df :
                              new_scores_df[i].car_id = r.car_id}) = 1

\* C16: the batch appended by one run of merge_equipment_history has exactly
\* one row per (car_id, category, equipment_name) listed by a latest car row,
\* a pair listed twice giving one row, and each row carries the valid_from,
\* valid_to and is_latest of that car's latest row.
C16_BatchOneRowPerPair ==
    runs > 0 =>
        /\ merged_equipment = equipment_history_df \o new_equipment_df
        /\ \A r \in LatestRows(merged_history) :
              \A pair \in PairsOf(r.equipments) :
                 LET rows == {i \in DOMAIN new_equipment_df :
                                 EquipmentKey(new_equipment_df[i]) =
                                     <<r.car_id, pair[1], pair[2]>>}
                 IN  /\ Cardinality(rows) = 1
                     /\ \A i \in rows :
                          /\ new_equipment_df[i].valid_from = r.valid_from
                          /\ new_equipment_df[i].valid_to = r.valid_to
                          /\ new_equipment_df[i].is_latest = r.is_latest
        /\ \A e \in Range(new_equipment_df) :
              \E r \in LatestRows(merged_history) :
                 /\ r.car_id = e.car_id
                 /\ <<e.category, e.equipment_name>> \in PairsOf(r.equipments)

\* a run whose batch holds the rows of a car that lists a pair twice and
\* whose latest row dates from an earlier day
C16_Witness ==
    /\ runs > 0
    /\ \E r \in LatestRows(merged_history) :
          /\ r.equipments = EquipmentsA
          /\ r.valid_from < today
          /\ \E e \in Range(new_equipment_df) :
                e.car_id = r.car_id /\ e.equipment_name = "Heated seats"

\* ------------------------------------------------ compare_records alone
\* the values of a text column: missing as None (a scraped row), missing as
\* NaN (a row read back from the CSV), and three real strings
ModelNames == {NoneText, NaNText, "", "nan", "i4"}
ComparePrices == {NoValue, NaN, 100, 120}
CompareKilometers == {NoValue, 1000}

CompareRecords ==
    [model_name : ModelNames, price : ComparePrices,
     kilometers : CompareKilometers]

\* the orders in which the tracked columns can be listed
ColumnOrders ==
    {o \in [1..3 -> {"model_name", "price", "kilometers"}] :
        \A i, j \in 1..3 : o[i] = o[j] => i = j}

InitCompare ==
    /\ EntityIdle
    /\ PipelineIdle
    /\ LoadIdle
    /\ LaunchdIdle
    /\ MainIdle
    /\ TimerIdle
    /\ SyncIdle
    /\ cmp_old_record \in CompareRecords
    /\ cmp_new_record \in CompareRecords
    /\ cmp_tracking_cols \in ColumnOrders
    /\ cmp_returned = FALSE
    /\ cmp_changed = FALSE

\* one call compare_records(old_record, new_record, tracking_cols)
Compare ==
    /\ ~cmp_returned
    /\ cmp_returned' = TRUE
    /\ cmp_changed' =
          compare_loop(cmp_old_record, cmp_new_record, cmp_tracking_cols)
    /\ UNCHANGED <<cmp_old_record, cmp_new_record, cmp_tracking_cols>>
    /\ UNCHANGED <<entity_vars, pipeline_vars, load_vars, launchd_vars, main_vars, timer_vars, sync_vars>>

NextCompare == Compare

SpecCompare == InitCompare /\ [][NextCompare]_vars

Missing(v) == v \in {NoValue, NaN}
MissingText(v) == v \in {NoneText, NaNText}

\* a tracked field differs: a numeric one by the rule of missing values and
\* exact equality, another one by its string representation
FieldDiffers(col) ==
    IF col \in NumericColumns
    THEN IF Missing(cmp_old_record[col]) /\ Missing(cmp_new_record[col])
         THEN FALSE
         ELSE IF Missing(cmp_old_record[col]) \/ Missing(cmp_new_record[col])
              THEN TRUE
              ELSE cmp_old_record[col] # cmp_new_record[col]
    ELSE str_value(col, cmp_old_record[col])
             # str_value(col, cmp_new_record[col])

\* C17: compare_records returns true if and only if at least one tracked
\* field differs (numeric fields: missing equals missing, missing differs
\* from present, present values by exact equality), whatever the order of
\* the tracked fields.
C17_ChangedIffSomeFieldDiffers ==
    cmp_returned =>
        /\ cmp_changed <=> \E col \in Range(cmp_tracking_cols) : FieldDiffers(col)
        /\ \A o \in ColumnOrders :
              compare_loop(cmp_old_record, cmp_new_record, o) = cmp_changed

\* a call that meets None against NaN in one numeric field, a value against
\* a missing one in the other, with the differing field listed last
C17_Witness ==
    /\ cmp_returned
    /\ cmp_changed
    /\ cmp_old_record.price = NaN /\ cmp_new_record.price = NoValue
    /\ cmp_old_record.kilometers = 1000 /\ cmp_new_record.kilometers = NoValue
    /\ cmp_old_record.model_name = cmp_new_record.model_name
    /\ cmp_tracking_cols[3] = "kilometers"

\* C18: for a non-numeric tracked field a missing value equals a missing
\* value in whatever form and differs from every present value, so a row
\* whose tracked fields are all missing is unchanged against all missing.
C18_MissingTextIsCanonical ==
    cmp_returned =>
        /\ \A col \in TextColumns :
              /\ MissingText(cmp_old_record[col])
                    /\ MissingText(cmp_new_record[col])
                 => ~col_changed(cmp_old_record, cmp_new_record, col)
              /\ MissingText(cmp_old_record[col])
                    # MissingText(cmp_new_record[col])
                 => col_changed(cmp_old_record, cmp_new_record, col)
        /\ (\A col \in NumericColumns :
               Missing(cmp_old_record[col]) /\ Missing(cmp_new_record[col]))
           /\ (\A col \in TextColumns :
                  MissingText(cmp_old_record[col])
                     /\ MissingText(cmp_new_record[col]))
           => ~cmp_changed

\* -------------------------------------------------- the loaders alone
InitLoad ==
    /\ EntityIdle
    /\ CompareIdle
    /\ PipelineIdle
    /\ LaunchdIdle
    /\ MainIdle
    /\ TimerIdle
    /\ SyncIdle
    /\ load_file \in Files
    /\ load_columns \in {HISTORY_COLUMNS, EQUIPMENT_COLUMNS, SCORES_COLUMNS}
    /\ load_returned = FALSE
    /\ loaded_df = EmptyTable(HISTORY_COLUMNS)

\* one call of a loader
Load ==
    /\ ~load_returned
    /\ load_returned' = TRUE
    /\ loaded_df' = load_history(load_file, load_columns)
    /\ UNCHANGED <<load_file, load_columns>>
    /\ UNCHANGED <<entity_vars, compare_vars, pipeline_vars, launchd_vars, main_vars, timer_vars, sync_vars>>

NextLoad == Load

SpecLoad == InitLoad /\ [][NextLoad]_vars

\* the day a timestamp text stands for, NoDate for a malformed one
DayOfText(text) ==
    IF text = "2025-01-01" THEN 1
    ELSE IF text = "2025-01-02" THEN 2
    ELSE NoDate

\* C19: a loader always returns a table: the empty table with the canonical
\* columns when the file is missing or cannot be read, otherwise every row
\* of the file, a malformed timestamp text loaded as null.
C19_LoadersDegrade ==
    load_returned =>
        /\ load_file.state \in {"missing", "unreadable"} =>
              loaded_df = [columns |-> load_columns, rows |-> <<>>]
        /\ load_file.state = "ok" =>
              /\ Len(loaded_df.rows) = Len(load_file.rows)
              /\ \A i \in DOMAIN load_file.rows :
                    /\ loaded_df.rows[i].car_id = load_file.rows[i].car_id
                    /\ loaded_df.rows[i].valid_from =
                          DayOfText(load_file.rows[i].valid_from)
                    /\ loaded_df.rows[i].valid_to =
                          DayOfText(load_file.rows[i].valid_to)

\* a load of a file whose second row has a malformed valid_from
C19_Witness ==
    /\ load_returned
    /\ load_file.state = "ok"
    /\ Len(load_file.rows) = 2
    /\ load_file.rows[2].valid_from = "not a date"
    /\ load_file.rows[2].valid_to = "2025-01-02"
    /\ loaded_df.rows[1].valid_from = 1
    /\ loaded_df.rows[2].valid_from = NoDate

\* ------------------------------------------- the wrapper invocations
other_vars == <<entity_vars, compare_vars, pipeline_vars, load_vars,
               main_vars,
               timer_vars,
               sync_vars>>

\* the variables of a wrapper process
locals == <<CURRENT_TIME, TODAY, loaded, LAST_CHECK, RUNS_TODAY, invocation>>

\* what is recorded of the invocations and launches so far
launchd_history == <<launches, last_start, close_spaced>>

\* sys.exit: the process ends and its variables are gone
Exit(p) ==
    /\ pc' = [pc EXCEPT ![p] = "idle"]
    /\ CURRENT_TIME' = [CURRENT_TIME EXCEPT ![p] = 0]
    /\ TODAY' = [TODAY EXCEPT ![p] = 0]
    /\ loaded' = [loaded EXCEPT ![p] = 0]
    /\ LAST_CHECK' = [LAST_CHECK EXCEPT ![p] = <<>>]
    /\ RUNS_TODAY' = [RUNS_TODAY EXCEPT ![p] = 0]
    /\ invocation' = [invocation EXCEPT ![p] = 0]

\* time passes
Tick ==
    /\ ticks < MaxTicks
    /\ \E step \in ClockSteps : clock' = clock + step
    /\ ticks' = ticks + 1
    /\ UNCHANGED <<invocations, last_check, run_log, history_file, pc>>
    /\ UNCHANGED <<locals, launchd_history>>
    /\ UNCHANGED other_vars

\* a wrapper process starts in the first free slot, reads the clock
\* (lines 19-20) and reads and tests the last check time (lines 28-33)
Start(p) ==
    /\ pc[p] = "idle"
    /\ \A q \in Procs : q < p => pc[q] # "idle"
    /\ invocations < MaxInvocations
    /\ invocations' = invocations + 1
    /\ invocation' = [invocation EXCEPT ![p] = invocations + 1]
    /\ CURRENT_TIME' = [CURRENT_TIME EXCEPT ![p] = clock]
    /\ TODAY' = [TODAY EXCEPT ![p] = DayOf(clock)]
    /\ LAST_CHECK' = [LAST_CHECK EXCEPT ![p] = last_check]
    /\ pc' = [pc EXCEPT ![p] =
                 IF last_check # <<>> /\ clock - last_check[1] <= WakeGap
                 THEN "awake" ELSE "update_check"]
    /\ last_start' = <<clock>>
    /\ close_spaced' = (close_spaced /\
                           (last_start = <<>> \/ clock - last_start[1] <= WakeGap))
    /\ UNCHANGED <<clock, ticks, last_check, run_log, history_file, loaded,
                   RUNS_TODAY, launches>>
    /\ UNCHANGED other_vars

\* the Mac is awake: record the time and exit 0 (lines 34-36)
SkipAwake(p) ==
    /\ pc[p] = "awake"
    /\ last_check' = <<CURRENT_TIME[p]>>
    /\ Exit(p)
    /\ UNCHANGED <<clock, ticks, invocations, run_log, history_file>>
    /\ UNCHANGED launchd_history
    /\ UNCHANGED other_vars

\* update the last check time (line 39)
UpdateLastCheck(p) ==
    /\ pc[p] = "update_check"
    /\ last_check' = <<CURRENT_TIME[p]>>
    /\ pc' = [pc EXCEPT ![p] = "count_runs"]
    /\ UNCHANGED <<clock, ticks, invocations, run_log, history_file>>
    /\ UNCHANGED <<locals, launchd_history>>
    /\ UNCHANGED other_vars

\* count the runs of today and exit 0 at two or more (lines 42-50)
CountRuns(p) ==
    /\ pc[p] = "count_runs"
    /\ IF RunsOn(run_log, TODAY[p]) >= MaxRunsPerDay
       THEN Exit(p)
       ELSE /\ pc' = [pc EXCEPT ![p] = "log_run"]
            /\ RUNS_TODAY' = [RUNS_TODAY EXCEPT ![p] = RunsOn(run_log, TODAY[p])]
            /\ UNCHANGED <<CURRENT_TIME, TODAY, loaded, LAST_CHECK, invocation>>
    /\ UNCHANGED <<clock, ticks, invocations, last_check, run_log,
                   history_file>>
    /\ UNCHANGED launchd_history
    /\ UNCHANGED other_vars

\* append the line of this run to the run log (lines 53-54)
LogRun(p) ==
    /\ pc[p] = "log_run"
    /\ run_log' = Append(run_log, TODAY[p])
    /\ pc' = [pc EXCEPT ![p] = "launch"]
    /\ UNCHANGED <<clock, ticks, invocations, last_check, history_file>>
    /\ UNCHANGED <<locals, launchd_history>>
    /\ UNCHANGED other_vars

\* what a launch leaves on record: its day, the runs it had counted, whether
\* it is the first invocation, and whether it had read a last check time of
\* WakeGap seconds ago or less
LaunchRecord(p) ==
    [day |-> TODAY[p], runs_today |-> RUNS_TODAY[p],
     first |-> (invocation[p] = 1),
     awake |-> (LAST_CHECK[p] # <<>>
                  /\ CURRENT_TIME[p] - LAST_CHECK[p][1] <= WakeGap)]

\* run src.bmw.main if the virtual environment exists, else exit 1
\* (lines 57-67)
Launch(p) ==
    /\ pc[p] = "launch"
    /\ \E venv_exists \in BOOLEAN :
          IF venv_exists
          THEN /\ pc' = [pc EXCEPT ![p] = "main"]
               /\ launches' = Append(launches, LaunchRecord(p))
               /\ UNCHANGED locals
          ELSE /\ Exit(p)
               /\ UNCHANGED launches
    /\ UNCHANGED <<clock, ticks, invocations, last_check, run_log,
                   history_file, last_start, close_spaced>>
    /\ UNCHANGED other_vars

\* main() loads the history file (main.py lines 140-141)
LoadHistory(p) ==
    /\ pc[p] = "main"
    /\ loaded' = [loaded EXCEPT ![p] = history_file]
    /\ pc' = [pc EXCEPT ![p] = "merging"]
    /\ UNCHANGED <<clock, ticks, invocations, last_check, run_log,
                   history_file, CURRENT_TIME, TODAY, LAST_CHECK, RUNS_TODAY,
                   invocation>>
    /\ UNCHANGED launchd_history
    /\ UNCHANGED other_vars

\* main() writes the merged history back (main.py lines 148-156) and the
\* wrapper exits with its return code
WriteHistory(p) ==
    /\ pc[p] = "merging"
    /\ history_file' = loaded[p] + 1
    /\ Exit(p)
    /\ UNCHANGED <<clock, ticks, invocations, last_check, run_log>>
    /\ UNCHANGED launchd_history
    /\ UNCHANGED other_vars

NextLaunchd ==
    \/ Tick
    \/ \E p \in Procs :
          \/ Start(p)
          \/ SkipAwake(p)
          \/ UpdateLastCheck(p)
          \/ CountRuns(p)
          \/ LogRun(p)
          \/ Launch(p)
          \/ LoadHistory(p)
          \/ WriteHistory(p)

SpecLaunchd == Init /\ [][NextLaunchd]_vars

\* C20: at most one pipeline run at a time is between loading the history
\* file and writing it back, for every interleaving of wrapper invocations.
C20_RunsSerialized ==
    Cardinality({p \in Procs : pc[p] = "merging"}) <= 1

\* ------------------------------------------------------ the runs of main()
not_main_vars == <<entity_vars, compare_vars, pipeline_vars, load_vars,
                   launchd_vars, timer_vars, sync_vars>>

\* notifier.notify_scraping_complete(stats); return
MainReturn(st) ==
    /\ main_pc' = "idle"
    /\ stats' = st
    /\ notifications' = Append(notifications, notify_scraping_complete(st))

\* an except branch of main(): record the error, notify and return
MainFails(step) ==
    /\ main_failed' = step
    /\ MainReturn([stats EXCEPT !.error = step, !.success = FALSE])

\* main() starts; STEP 1, scraping (main.py lines 48-91)
Scrape ==
    /\ main_pc = "idle"
    /\ main_runs < MaxMainRuns
    /\ main_runs' = main_runs + 1
    /\ \E df \in MainSnapshots, d \in Days, sync \in BOOLEAN, raises \in BOOLEAN :
          /\ d \in {main_day, main_day + 1}
          /\ main_day' = d
          /\ sync_db' = sync
          /\ IF raises
             THEN /\ main_df' = <<>>
                  /\ main_failed' = "scrape"
                  /\ main_pc' = "idle"
                  /\ stats' = [InitialStats(sync) EXCEPT !.error = "scrape"]
                  /\ notifications' =
                        <<notify_scraping_complete(InitialStats(sync))>>
             ELSE /\ main_df' = df
                  /\ main_failed' = "none"
                  /\ main_pc' = "process"
                  /\ stats' = [InitialStats(sync) EXCEPT !.cars_scraped = Len(df)]
                  /\ notifications' = <<>>
    /\ start_csv' = [history |-> history_csv, equipment |-> equipment_csv,
                     scores |-> scores_csv]
    /\ mem_history' = <<>>
    /\ mem_equipment' = <<>>
    /\ mem_scores' = <<>>
    /\ df_export' = <<>>
    /\ sync_calls' = <<>>
    /\ sync_results' = AllSynced
    /\ sync_returned' = FALSE
    /\ UNCHANGED <<history_csv, equipment_csv, scores_csv>>
    /\ UNCHANGED not_main_vars

\* a STEP 2 without the test for an empty scrape
Process_merges ==
    /\ main_pc = "process"
    /\ \E raises \in BOOLEAN :
          IF raises
          THEN MainFails("process")
          ELSE /\ main_pc' = "history"
               /\ UNCHANGED <<stats, notifications, main_failed>>
    /\ UNCHANGED <<main_runs, main_day, main_df, sync_db, history_csv,
                   equipment_csv, scores_csv, start_csv, mem_history,
                   mem_equipment, mem_scores, df_export, sync_calls,
                   sync_results, sync_returned>>
    /\ UNCHANGED not_main_vars

\* STEP 2, the data frame and the scores (main.py lines 96-130): an empty
\* scrape ends the run as a success
Process ==
    /\ main_pc = "process"
    /\ IF main_df = <<>>
       THEN /\ MainReturn([stats EXCEPT !.success = TRUE, !.error = "no cars"])
            /\ UNCHANGED main_failed
       ELSE \E raises \in BOOLEAN :
               IF raises
               THEN MainFails("process")
               ELSE /\ main_pc' = "history"
                    /\ UNCHANGED <<stats, notifications, main_failed>>
    /\ UNCHANGED <<main_runs, main_day, main_df, sync_db, history_csv,
                   equipment_csv, scores_csv, start_csv, mem_history,
                   mem_equipment, mem_scores, df_export, sync_calls,
                   sync_results, sync_returned>>
    /\ UNCHANGED not_main_vars

\* STEP 3, load, merge and save the car history (main.py lines 135-164)
HistoryStep ==
    /\ main_pc = "history"
    /\ \E raises \in BOOLEAN :
          IF raises
          THEN /\ MainFails("history")
               /\ UNCHANGED <<history_csv, mem_history>>
          ELSE LET hist == merge_historical_data(df_tracking(main_df),
                                                 history_csv, main_day)
               IN  /\ mem_history' = hist
                   /\ history_csv' = hist
                   /\ main_pc' = "equipment"
                   /\ UNCHANGED <<stats, notifications, main_failed>>
    /\ UNCHANGED <<main_runs, main_day, main_df, sync_db, equipment_csv,
                   scores_csv, start_csv, mem_equipment, mem_scores,
                   df_export, sync_calls, sync_results, sync_returned>>
    /\ UNCHANGED not_main_vars

\* STEP 4, load, merge and save the equipment history (main.py lines 169-191)
EquipmentStep ==
    /\ main_pc = "equipment"
    /\ \E raises \in BOOLEAN :
          IF raises
          THEN /\ MainFails("equipment")
               /\ UNCHANGED <<equipment_csv, mem_equipment>>
          ELSE LET equip == merge_equipment_history(mem_history,
                                                    equipment_csv, main_day)
               IN  /\ mem_equipment' = equip
                   /\ equipment_csv' = equip
                   /\ main_pc' = "scores"
                   /\ UNCHANGED <<stats, notifications, main_failed>>
    /\ UNCHANGED <<main_runs, main_day, main_df, sync_db, history_csv,
                   scores_csv, start_csv, mem_history, mem_scores,
                   df_export, sync_calls, sync_results, sync_returned>>
    /\ UNCHANGED not_main_vars

\* STEP 5, load, merge and save the scores history (main.py lines 196-225)
ScoresStep ==
    /\ main_pc = "scores"
    /\ \E raises \in BOOLEAN :
          IF raises
          THEN /\ MainFails("scores")
               /\ UNCHANGED <<scores_csv, mem_scores>>
          ELSE LET sc == merge_scores_history(
                             with_scores(mem_history, main_df),
                             scores_csv, main_day)
               IN  /\ mem_scores' = sc
                   /\ scores_csv' = sc
                   /\ main_pc' = "export"
                   /\ UNCHANGED <<stats, notifications, main_failed>>
    /\ UNCHANGED <<main_runs, main_day, main_df, sync_db, history_csv,
                   equipment_csv, start_csv, mem_history, mem_equipment,
                   df_export, sync_calls, sync_results, sync_returned>>
    /\ UNCHANGED not_main_vars

\* the outcomes of SupabaseClient(): a client, a ValueError, another error
ClientOutcomes == {"client", "ValueError", "Exception"}

\* STEP 6, the export, the summary, the database sync and the final
\* notification (main.py lines 230-308)
ExportStep ==
    /\ main_pc = "export"
    /\ \E raises \in BOOLEAN, made \in ClientOutcomes, results \in [DOMAIN SyncNames -> BOOLEAN] :
          IF raises
          THEN /\ MainFails("export")
               /\ made = "client"
               /\ results = AllSynced
               /\ UNCHANGED <<df_export, sync_calls, sync_results, sync_returned>>
          ELSE LET exp == ExportOf(mem_history, mem_scores)
                   counted == [stats EXCEPT
                                  !.active_cars = CountStatus(exp, "active"),
                                  !.sold_cars = CountStatus(exp, "sold"),
                                  !.total_unique_cars =
                                      Cardinality(car_ids(mem_history))]
                   synced == sync_all(results, 1, TRUE, <<>>)
               IN  /\ df_export' = exp
                   /\ UNCHANGED main_failed
                   /\ IF ~sync_db
                      THEN /\ made = "client"
                           /\ results = AllSynced
                           /\ UNCHANGED <<sync_calls, sync_results, sync_returned>>
                           /\ MainReturn([counted EXCEPT !.success = TRUE])
                      ELSE IF made = "client"
                      THEN /\ sync_calls' = synced.calls
                           /\ sync_results' = results
                           /\ sync_returned' = synced.returned
                           /\ MainReturn([counted EXCEPT !.db_synced = TRUE,
                                                         !.success = TRUE])
                      ELSE /\ results = AllSynced
                           /\ UNCHANGED <<sync_calls, sync_results, sync_returned>>
                           /\ MainReturn([counted EXCEPT !.error = "database",
                                                         !.success = TRUE])
    /\ UNCHANGED <<main_runs, main_day, main_df, sync_db, history_csv,
                   equipment_csv, scores_csv, start_csv, mem_history,
                   mem_equipment, mem_scores>>
    /\ UNCHANGED not_main_vars

NextMain ==
    \/ Scrape
    \/ Process
    \/ HistoryStep
    \/ EquipmentStep
    \/ ScoresStep
    \/ ExportStep

SpecMain == Init /\ [][NextMain]_vars

\* C21: a run of main() in which the car merge, the equipment merge or the
\* scores merge raises leaves the three history files as it found them.
C21_FailedRunPersistsNothing ==
    main_pc = "idle" /\ main_failed \in {"history", "equipment", "scores"} =>
        /\ history_csv = start_csv.history
        /\ equipment_csv = start_csv.equipment
        /\ scores_csv = start_csv.scores

\* the notification a finished run has sent last
LastNotification == notifications[Len(notifications)]

\* a run that was asked to sync and got as far as calling sync_all
SyncRan == main_pc = "idle" /\ sync_db /\ sync_calls # <<>>

\* C25: a run asked to sync reports the database as synced only if all four
\* table syncs returned True, and as sync failed if one returned False;
\* sync_all calls the four table syncs in order whatever they return, and
\* returns True iff all of them did.
C25_SyncedOnlyIfAllSynced ==
    SyncRan =>
        /\ stats.db_synced => sync_results = AllSynced
        /\ LastNotification.database = "Synced" => sync_results = AllSynced
        /\ sync_results # AllSynced => LastNotification.database = "Sync failed"
        /\ sync_calls = SyncNames
        /\ sync_returned <=> sync_results = AllSynced

\* C28: the exported table of a completed run has exactly one row per car of
\* the latest partition of the car history, and the reported number of
\* active cars is the number of those cars.
C28_ExportOneRowPerLatestCar ==
    main_pc = "idle" /\ stats.success /\ main_df # <<>> =>
        /\ \A r \in Range(get_latest_records(mem_history)) :
              Cardinality({i \in DOMAIN df_export :
                              df_export[i].car_id = r.car_id}) = 1
        /\ \A i \in DOMAIN df_export :
              \E r \in Range(get_latest_records(mem_history)) :
                 r.car_id = df_export[i].car_id
        /\ stats.active_cars =
              Cardinality(car_ids(get_latest_records(mem_history)))

\* a run that scraped no car and has returned
EmptyRunReturned ==
    /\ main_pc = "idle"
    /\ main_runs > 0
    /\ main_failed = "none"
    /\ main_df = <<>>

\* C29: a run that scrapes no car merges nothing: the three history files
\* stay as they were, the run is reported as a success and exactly one
\* notification is sent.
C29_EmptyScrapeChangesNothing ==
    EmptyRunReturned =>
        /\ history_csv = start_csv.history
        /\ equipment_csv = start_csv.equipment
        /\ scores_csv = start_csv.scores
        /\ mem_history = <<>> /\ mem_equipment = <<>> /\ mem_scores = <<>>
        /\ stats.success
        /\ Len(notifications) = 1
        /\ notifications[1].title = "Success"

\* an empty scrape after a run that left an active car in the history
C29_Witness ==
    /\ EmptyRunReturned
    /\ \E r \in Range(history_csv) : r.is_latest /\ r.status = "active"
    /\ equipment_csv # <<>>
    /\ scores_csv # <<>>

\* ------------------------------------------------ the timer function alone
InitTimer ==
    /\ EntityIdle
    /\ CompareIdle
    /\ PipelineIdle
    /\ LoadIdle
    /\ LaunchdIdle
    /\ MainIdle
    /\ SyncIdle
    /\ trigger_utc \in TriggerTimes
    /\ utc_offset \in {CET, CEST}
    /\ timer_returned = FALSE
    /\ current_hour = 0
    /\ current_minute = 0
    /\ pipeline_executed = FALSE

\* one call of BmwScrapingFunction(timer) (lines 64-134)
BmwScrapingFunction ==
    /\ ~timer_returned
    /\ timer_returned' = TRUE
    /\ current_hour' = BrusselsTime(trigger_utc, utc_offset).hour
    /\ current_minute' = BrusselsTime(trigger_utc, utc_offset).minute
    /\ pipeline_executed' =
          InWindow(BrusselsTime(trigger_utc, utc_offset).hour,
                   BrusselsTime(trigger_utc, utc_offset).minute)
    /\ UNCHANGED <<trigger_utc, utc_offset>>
    /\ UNCHANGED <<entity_vars, compare_vars, pipeline_vars, load_vars,
                   launchd_vars, main_vars, sync_vars>>

NextTimer == BmwScrapingFunction

SpecTimer == InitTimer /\ [][NextTimer]_vars

\* the trigger is one of the schedule, 08:00 UTC or 13:00 UTC
Scheduled == trigger_utc.hour \in ScheduleHours /\ trigger_utc.minute = 0

\* C22: a trigger at 08:00 or 13:00 UTC executes the pipeline, at 10:00 or
\* 15:00 Brussels time, under CET and under CEST; a trigger outside 10:00-10:04
\* and 15:00-15:04 Brussels time does not execute it.
C22_TwiceADayInBothOffsets ==
    timer_returned =>
        /\ Scheduled =>
              /\ pipeline_executed
              /\ current_hour \in RunHours /\ current_minute = 0
        /\ ~(current_hour \in RunHours /\ current_minute \in 0..4) =>
              ~pipeline_executed

\* the launches recorded for the day d
LaunchesOn(d) == {i \in DOMAIN launches : launches[i].day = d}

scores_data(row, now) ==
    [car_id |-> row.car_id,
     value_efficiency_score |-> row.value_efficiency_score,
     final_score |-> row.final_score,
     valid_from |-> date_or_today(row.valid_from, now),
     valid_to |-> row.valid_to,
     is_latest |-> row.is_latest,
     scrape_date |-> date_or_today(row.scrape_date, now)]

\* select('id').eq('car_id', car_id).eq('is_latest', True) on a table
latest_ids(table, car_id) ==
    {i \in DOMAIN table : table[i].car_id = car_id /\ table[i].is_latest}

\* the loop over the rows of merged_scores_df (lines 387-434); seen_car_ids
\* are the car_ids of the rows taken so far
RECURSIVE scores_loop(_, _, _, _, _)
scores_loop(df, existing_car_ids, table, seen_car_ids, now) ==
    IF df = <<>>
    THEN [records_to_insert |-> <<>>, records_to_update |-> <<>>]
    ELSE LET row == Head(df)
             car_id == row.car_id
             data == scores_data(row, now)
             existing == latest_ids(table, car_id)
         IN  IF car_id \notin existing_car_ids \/ car_id \in seen_car_ids
             THEN scores_loop(Tail(df), existing_car_ids, table,
                              seen_car_ids, now)
             ELSE LET rest == scores_loop(Tail(df), existing_car_ids, table,
                                          seen_car_ids \cup {car_id}, now)
                  IN  IF data.is_latest /\ existing # {}
                      THEN [rest EXCEPT !.records_to_update =
                              <<[record_id |-> CHOOSE i \in existing :
                                                  \A j \in existing : i <= j,
                                 scores_data |-> data]>> \o @]
                      ELSE [rest EXCEPT !.records_to_insert = <<data>> \o @]

\* update(scores_data).eq('id', record_id) for each pending update
\* (lines 463-470)
RECURSIVE apply_updates(_, _)
apply_updates(table, updates) ==
    IF updates = <<>> THEN table
    ELSE apply_updates(
             [table EXCEPT ![Head(updates).record_id] =
                               Head(updates).scores_data],
             Tail(updates))

\* one call of sync_scores(merged_scores) as sync_all makes it, after
\* sync_cars_table may have added cars to bmw_cars. client_ok FALSE: the
\* first request raises and the call returns False (lines 476-478); the
\* later requests succeed.
sync_scores ==
    /\ sync_scores_calls < MaxSyncCalls
    /\ sync_scores_calls' = sync_scores_calls + 1
    /\ merged_scores_df' = merged_scores
    /\ scores_before' = bmw_cars_scores
    /\ \E client_ok \in BOOLEAN, existing_car_ids \in SUBSET Keys :
          /\ bmw_cars \subseteq existing_car_ids
          /\ IF merged_scores = <<>>
             THEN /\ scores_synced' = "True"
                  /\ records_to_insert' = <<>>
                  /\ records_to_update' = <<>>
                  /\ inserted' = <<>>
                  /\ updated' = <<>>
                  /\ UNCHANGED <<bmw_cars, bmw_cars_scores>>
             ELSE IF ~client_ok
             THEN /\ scores_synced' = "False"
                  /\ records_to_insert' = <<>>
                  /\ records_to_update' = <<>>
                  /\ inserted' = <<>>
                  /\ updated' = <<>>
                  /\ UNCHANGED <<bmw_cars, bmw_cars_scores>>
             ELSE LET r == scores_loop(merged_scores, existing_car_ids,
                                       bmw_cars_scores, {}, today)
                  IN  /\ bmw_cars' = existing_car_ids
                      /\ records_to_insert' = r.records_to_insert
                      /\ records_to_update' = r.records_to_update
                      /\ scores_synced' = "True"
                      /\ IF r.records_to_insert = <<>>
                         THEN /\ inserted' = <<>>
                              /\ updated' = <<>>
                              /\ UNCHANGED bmw_cars_scores
                         ELSE /\ inserted' = r.records_to_insert
                              /\ updated' = r.records_to_update
                              /\ bmw_cars_scores' =
                                    apply_updates(
                                        bmw_cars_scores \o r.records_to_insert,
                                        r.records_to_update)
    /\ UNCHANGED <<entity_vars, compare_vars, pipeline_vars, load_vars,
                   launchd_vars, main_vars, timer_vars>>

NextSync == PipelineRun \/ sync_scores

SpecSync == Init /\ [][NextSync]_vars

\* the ids of the latest score rows of a table
latest_ids_all(table) == {i \in DOMAIN table : table[i].is_latest}

\* the cars with a latest score row in a table
latest_cars_of(table) == {table[i].car_id : i \in latest_ids_all(table)}

\* C26: after a sync_scores call that returned True, every car that has a
\* latest score row in the synced table and had a latest row in the remote
\* table before the call has had that remote row updated, whether or not
\* the call inserted rows.
C26_ExistingLatestRowsUpdated ==
    scores_synced = "True" =>
        \A c \in latest_cars_of(merged_scores_df) \cap
                 latest_cars_of(scores_before) :
            \E i \in DOMAIN updated :
                /\ updated[i].scores_data.car_id = c
                /\ updated[i].record_id \in latest_ids(scores_before, c)

\* the rows a call sent to the database, inserts and updates
sent_scores ==
    Range(inserted) \cup {updated[i].scores_data : i \in DOMAIN updated}

\* C27: of several rows of one car_id in the table given to sync_scores,
\* oldest first, only the latest (the last) is sent to the database.
C27_OnlyLatestRowSent ==
    \A d \in sent_scores :
        LET rows == RowsOf(merged_scores_df, d.car_id)
        IN  d = scores_data(rows[Len(rows)], d.scrape_date)

\* C30: from an empty history, after any sequence of merges of unique-key
\* snapshots, every row with is_latest true is active with no valid_to, and
\* every sold row has is_latest false; so every latest row of the history a
\* merge was given is either processed with the snapshot or retired.
C30_LatestRowsAreLive ==
    /\ \A i \in DOMAIN merged_history :
          /\ merged_history[i].is_latest =>
                /\ merged_history[i].status = "active"
                /\ merged_history[i].valid_to = NoDate
          /\ merged_history[i].status = "sold" =>
                merged_history[i].is_latest = FALSE
    /\ \A r \in Range(get_latest_records(history_df)) :
          \/ r.car_id \in car_ids(current_data)
          \/ r \in Range(disappeared_cars(get_latest_records(history_df),
                                          car_ids(current_data)))

\* a history with a live row and a retired row, after a merge that was
\* given a live row
C30_Witness ==
    /\ runs >= 2
    /\ get_latest_records(history_df) # <<>>
    /\ \E i, j \in DOMAIN merged_history :
          /\ merged_history[i].is_latest
          /\ merged_history[j].status = "sold"

====
